---- MODULE Spec2Model ----
(***************************************************************************)
(* A model of parse_blinds.py: the two extractors of a daily harvest       *)
(* report (parse_page1_summary, parse_detail_tables), the document parser  *)
(* (parse_one_pdf) and the aggregation, ranking and report of main.        *)
(*                                                                         *)
(* Python strings are sequences of one-character strings, so that split,   *)
(* join, strip, int(), substring tests and string comparison are computed  *)
(* as the interpreter computes them.  None is the value None_.             *)
(***************************************************************************)
EXTENDS Integers, Sequences, FiniteSets, TLC

\* ------------------------------------------------------------------------
\* Bounds of the model
\* ------------------------------------------------------------------------
\* lines of one summary block fed to parse_section
MaxBlockLines == 2
\* rows of one document walked by parse_detail_tables
MaxRows == 3
\* tables on one page
MaxTables == 2
\* tuples of one aggregation batch
MaxBatch == 3

\* ------------------------------------------------------------------------
\* Python values: None and str
\* ------------------------------------------------------------------------
\* None: a value that is no string (every element of a string is one character)
None_ == <<"None">>

\* The characters of the model in code point order (\t < \n < space < # < ...)
Alphabet ==
  <<"\t","\n"," ","#","+","-",".","/",
    "0","1","2","3","4","5","6","7","8","9",
    "A","B","C","D","E","F","G","H","I","J","K","L","M",
    "N","O","P","Q","R","S","T","U","V","W","X","Y","Z","_",
    "a","b","c","d","e","f","g","h","i","j","k","l","m",
    "n","o","p","q","r","s","t","u","v","w","x","y","z">>

\* ord(c), up to an order-preserving renumbering
Ord(c) == CHOOSE i \in 1..Len(Alphabet) : Alphabet[i] = c

Digits == <<"0","1","2","3","4","5","6","7","8","9">>

IsDigit(c) == \E i \in 1..Len(Digits) : Digits[i] = c

DigitVal(c) == (CHOOSE i \in 1..Len(Digits) : Digits[i] = c) - 1

\* str.isspace for the characters of the model
IsSpace(c) == c \in {" ", "\t", "\n"}

\* a < b for str: lexicographic by code point, a proper prefix is smaller
RECURSIVE StrLess(_, _)
StrLess(a, b) ==
  IF b = <<>> THEN FALSE
  ELSE IF a = <<>> THEN TRUE
  ELSE IF a[1] # b[1] THEN Ord(a[1]) < Ord(b[1])
  ELSE StrLess(Tail(a), Tail(b))

\* s.lstrip()
RECURSIVE LStrip(_)
LStrip(s) == IF s # <<>> /\ IsSpace(s[1]) THEN LStrip(Tail(s)) ELSE s

\* s.rstrip()
RECURSIVE RStrip(_)
RStrip(s) ==
  IF s # <<>> /\ IsSpace(s[Len(s)]) THEN RStrip(SubSeq(s, 1, Len(s) - 1)) ELSE s

\* s.strip()
Strip(s) == RStrip(LStrip(s))

\* the first maximal run of non-space characters of s (s has no leading space)
RECURSIVE Word(_)
Word(s) == IF s = <<>> \/ IsSpace(s[1]) THEN <<>> ELSE <<s[1]>> \o Word(Tail(s))

\* s.split(): the maximal runs of non-space characters, in order
RECURSIVE Split(_)
Split(s) ==
  LET t == LStrip(s) IN
  IF t = <<>> THEN <<>>
  ELSE LET w == Word(t) IN <<w>> \o Split(SubSeq(t, Len(w) + 1, Len(t)))

\* the characters of s before its first "\n"
RECURSIVE FirstLine(_)
FirstLine(s) == IF s = <<>> \/ s[1] = "\n" THEN <<>> ELSE <<s[1]>> \o FirstLine(Tail(s))

\* s.split("\n"): the pieces between line breaks, empty pieces kept
RECURSIVE SplitLines(_)
SplitLines(s) ==
  LET l == FirstLine(s) IN
  IF Len(l) = Len(s) THEN <<l>>
  ELSE <<l>> \o SplitLines(SubSeq(s, Len(l) + 2, Len(s)))

\* sep.join(parts)
RECURSIVE JoinWith(_, _)
JoinWith(sep, parts) ==
  IF parts = <<>> THEN <<>>
  ELSE IF Len(parts) = 1 THEN parts[1]
  ELSE parts[1] \o sep \o JoinWith(sep, Tail(parts))

\* " ".join(parts)
Join(parts) == JoinWith(<<" ">>, parts)

\* pat occurs in s at index i
MatchAt(s, pat, i) ==
  /\ i >= 1
  /\ i + Len(pat) - 1 <= Len(s)
  /\ SubSeq(s, i, i + Len(pat) - 1) = pat

\* the first index >= from at which pat occurs in s, 0 when there is none
Find(s, pat, from) ==
  LET hits == {i \in from..Len(s) : MatchAt(s, pat, i)} IN
  IF hits = {} THEN 0 ELSE CHOOSE i \in hits : \A j \in hits : i <= j

\* pat in s
Contains(s, pat) == Find(s, pat, 1) # 0

\* the digits of an int literal: digits, single underscores between them
DigitsOk(b) ==
  /\ b # <<>>
  /\ IsDigit(b[1])
  /\ IsDigit(b[Len(b)])
  /\ \A i \in 1..Len(b) : IsDigit(b[i]) \/ b[i] = "_"
  /\ \A i \in 1..(Len(b) - 1) : ~(b[i] = "_" /\ b[i + 1] = "_")

RECURSIVE DigitsVal(_)
DigitsVal(b) ==
  IF b = <<>> THEN 0
  ELSE IF b[Len(b)] = "_" THEN DigitsVal(SubSeq(b, 1, Len(b) - 1))
  ELSE 10 * DigitsVal(SubSeq(b, 1, Len(b) - 1)) + DigitVal(b[Len(b)])

\* int(s) for a str s: [ok |-> FALSE] stands for ValueError
IntOfStr(s) ==
  LET t == Strip(s)
      signed == t # <<>> /\ t[1] \in {"+", "-"}
      body == IF signed THEN Tail(t) ELSE t
  IN IF ~DigitsOk(body) THEN [ok |-> FALSE, val |-> 0]
     ELSE [ok |-> TRUE,
           val |-> IF signed /\ t[1] = "-" THEN 0 - DigitsVal(body) ELSE DigitsVal(body)]


\* ------------------------------------------------------------------------
\* parse_page1_summary
\* ------------------------------------------------------------------------
\* "EASTSIDE"
EASTSIDE ==
  <<"E","A","S","T","S","I","D","E">>

\* "EASTSIDE TOTALS"
EASTSIDE_TOTALS ==
  <<"E","A","S","T","S","I","D","E"," ","T","O","T","A","L","S">>

\* "WESTSIDE"
WESTSIDE ==
  <<"W","E","S","T","S","I","D","E">>

\* "WESTSIDE TOTALS"
WESTSIDE_TOTALS ==
  <<"W","E","S","T","S","I","D","E"," ","T","O","T","A","L","S">>

\* "EASTSIDE HUNTERS"
EASTSIDE_HUNTERS ==
  <<"E","A","S","T","S","I","D","E"," ","H","U","N","T","E","R","S">>

\* "WESTSIDE HUNTERS"
WESTSIDE_HUNTERS ==
  <<"W","E","S","T","S","I","D","E"," ","H","U","N","T","E","R","S">>

\* the names parse_section refuses (line 28)
HeaderNames == {EASTSIDE, EASTSIDE_TOTALS, WESTSIDE, WESTSIDE_TOTALS}

\* a slip: the header and totals names are not refused
SectionLineNoGuard(line, side) ==
  LET parts == Split(line)
      n == Len(parts)
  IN IF n < 6 THEN <<>>
     ELSE LET hunters == IntOfStr(parts[n - 4])
              ducks == IntOfStr(parts[n - 3])
              name == Join(SubSeq(parts, 1, n - 5))
          IN IF ~hunters.ok \/ ~ducks.ok THEN <<>>
             ELSE <<<<side, name, hunters.val, ducks.val>>>>

\* One iteration of the loop of parse_section: the tuples the line appends to out
SectionLine(line, side) ==
  LET parts == Split(line)
      n == Len(parts)
  IN IF n < 6 THEN <<>>
     ELSE LET hunters == IntOfStr(parts[n - 4])
              ducks == IntOfStr(parts[n - 3])
              name == Join(SubSeq(parts, 1, n - 5))
          IN IF ~hunters.ok \/ ~ducks.ok THEN <<>>
             ELSE IF name = <<>> \/ name \in HeaderNames THEN <<>>
             ELSE <<<<side, name, hunters.val, ducks.val>>>>

\* parse_section(block, side) over the lines of block
RECURSIVE SectionLines(_, _)
SectionLines(lines, side) ==
  IF lines = <<>> THEN <<>>
  ELSE SectionLine(lines[1], side) \o SectionLines(Tail(lines), side)

parse_section(block, side) == SectionLines(SplitLines(block), side)

\* re.search(start + ".*?" + end, text, re.DOTALL): the match, or None_
RegionMatch(text, start, end) ==
  LET p == Find(text, start, 1)
      q == IF p = 0 THEN 0 ELSE Find(text, end, p + Len(start))
  IN IF q = 0 THEN None_ ELSE SubSeq(text, p, q + Len(end) - 1)

parse_page1_summary(text) ==
  LET east_match == RegionMatch(text, EASTSIDE_HUNTERS, EASTSIDE_TOTALS)
      west_match == RegionMatch(text, WESTSIDE_HUNTERS, WESTSIDE_TOTALS)
  IN (IF east_match # None_ THEN parse_section(east_match, "Eastside") ELSE <<>>)
     \o (IF west_match # None_ THEN parse_section(west_match, "Westside") ELSE <<>>)

\* ------------------------------------------------------------------------
\* parse_detail_tables
\* ------------------------------------------------------------------------
\* the column-0 text of the Johnson unit
SigJohnson ==
  <<"t","\n","i","\n","n","\n","U","\n","n","\n","o","\n","s","\n","n","\n","h","\n","o","\n","J">>

\* "Johnson"
UnitJohnson ==
  <<"J","o","h","n","s","o","n">>

\* the column-0 text of the Racetrack unit
SigRacetrack ==
  <<"k","\n","c","\n","a","\n","t","\n","r"," ","i","\n","t"," ","n","\n","e"," ","U","\n","c","\n","a","\n","R">>

\* "Racetrack"
UnitRacetrack ==
  <<"R","a","c","e","t","r","a","c","k">>

\* the column-0 text of the Hunt unit
SigHunt ==
  <<"t","\n","i","\n","n","\n","U","\n","t","\n","n","\n","u","\n","H">>

\* "Hunt"
UnitHunt ==
  <<"H","u","n","t">>

\* the column-0 text of the Mudhen unit
SigMudhen ==
  <<"t","\n","i","\n","n","\n","U","\n","n","\n","e","\n","h","\n","d","\n","u","\n","M">>

\* "Mudhen"
UnitMudhen ==
  <<"M","u","d","h","e","n">>

\* the column-0 text of the Oak Island unit
SigOakIsland ==
  <<"d","\n","n","\n","a"," ","t","\n","l"," ","s"," ","i"," ","n","\n","I"," ","U","\n","k","\n","a","\n","O">>

\* "Oak Island"
UnitOakIsland ==
  <<"O","a","k"," ","I","s","l","a","n","d">>

\* the column-0 text of the Mud Lake unit
SigMudLake ==
  <<"t","\n","i","\n","n","\n","U","\n","e","\n","k","\n","a","\n","L","\n","d","\n","u","\n","M">>

\* "Mud Lake"
UnitMudLake ==
  <<"M","u","d"," ","L","a","k","e">>

\* the column-0 text of the Seal unit
SigSeal ==
  <<"t","\n","i","\n","n","\n","U","\n","e","\n","k","\n","a","\n","L","\n","l","\n","a","\n","e","\n","S">>

\* "Seal"
UnitSeal ==
  <<"S","e","a","l">>

\* the column-0 text of the Steelman unit
SigSteelman ==
  <<"t","\n","i","\n","n","\n","U","\n","n","\n","a","\n","m","\n","l","\n","e","\n","e","\n","t","\n","S">>

\* "Steelman"
UnitSteelman ==
  <<"S","t","e","e","l","m","a","n">>

\* the column-0 text of the Holman Point unit
SigHolmanPoint ==
  <<"t","\n","n","\n","i","\n","o","\n","P","\n","t","\n","n"," ","i"," ","n","\n","a"," ","U","\n","m","\n","l","\n","o","\n","H">>

\* "Holman Point"
UnitHolmanPoint ==
  <<"H","o","l","m","a","n"," ","P","o","i","n","t">>

\* UNIT_COL0_MAP.get(key): the unit name, or None_
UNIT_COL0_MAP_get(key) ==
  CASE key = SigJohnson -> UnitJohnson
    [] key = SigRacetrack -> UnitRacetrack
    [] key = SigHunt -> UnitHunt
    [] key = SigMudhen -> UnitMudhen
    [] key = SigOakIsland -> UnitOakIsland
    [] key = SigMudLake -> UnitMudLake
    [] key = SigSeal -> UnitSeal
    [] key = SigSteelman -> UnitSteelman
    [] key = SigHolmanPoint -> UnitHolmanPoint
    [] OTHER -> None_

\* "Blind", the header of the second column
BlindHeader ==
  <<"B","l","i","n","d">>

\* " #", between the unit and the blind id of a name
HashSep ==
  <<" ","#">>
\* str(col0) carries a unit label: non-empty, not blank, and holds a line break (line 79)
IsLabelCell(col0) ==
  /\ col0 # None_
  /\ col0 # <<>>
  /\ Strip(col0) # <<>>
  /\ Contains(col0, <<"\n">>)

\* a slip: a cell that is no number counts as 0
IntOfCellLenient(cell) ==
  IF cell = <<>> \/ ~IntOfStr(cell).ok THEN [ok |-> TRUE, val |-> 0] ELSE IntOfStr(cell)

\* int(cell or 0) for a cell that is a str: the empty cell is 0 (line 89)
IntOfCell(cell) == IF cell = <<>> THEN [ok |-> TRUE, val |-> 0] ELSE IntOfStr(cell)

\* a slip: a row is not skipped while current_unit is None (str(None) is "None")
DetailRowNoGuard(current_unit, row, page_num) ==
  IF Len(row) < 6 \/ row[2] = None_ \/ row[2] = BlindHeader
     \/ row[3] = None_ \/ row[4] = None_
  THEN [unit |-> current_unit, out |-> <<>>]
  ELSE LET unit == IF IsLabelCell(row[1]) THEN UNIT_COL0_MAP_get(Strip(row[1]))
                   ELSE current_unit
           hunters == IntOfCell(row[3])
           ducks == IntOfCell(row[4])
       IN IF ~hunters.ok \/ ~ducks.ok THEN [unit |-> unit, out |-> <<>>]
          ELSE [unit |-> unit,
                out |-> <<<<IF page_num = 1 THEN "Eastside" ELSE "Westside",
                            (IF unit = None_ THEN <<"N","o","n","e">> ELSE unit)
                              \o HashSep \o Strip(row[2]),
                            hunters.val, ducks.val>>>>]

\* One iteration of the row loop of parse_detail_tables (lines 71-93):
\* the new current_unit and the tuples the row appends to rows
DetailRow(current_unit, row, page_num) ==
  IF Len(row) < 6 THEN [unit |-> current_unit, out |-> <<>>]
  ELSE LET blind_cell == row[2]
           col0 == row[1]
       IN IF blind_cell = None_ \/ blind_cell = BlindHeader
          THEN [unit |-> current_unit, out |-> <<>>]
          ELSE LET unit == IF IsLabelCell(col0) THEN UNIT_COL0_MAP_get(Strip(col0))
                           ELSE current_unit
                   blind_id == Strip(blind_cell)
                   hunters_str == row[3]
                   ducks_str == row[4]
               IN IF unit = None_ THEN [unit |-> unit, out |-> <<>>]
                  ELSE IF hunters_str = None_ \/ ducks_str = None_
                  THEN [unit |-> unit, out |-> <<>>]
                  ELSE LET hunters == IntOfCell(hunters_str)
                           ducks == IntOfCell(ducks_str)
                           side == IF page_num = 1 THEN "Eastside" ELSE "Westside"
                       IN IF ~hunters.ok \/ ~ducks.ok THEN [unit |-> unit, out |-> <<>>]
                          ELSE [unit |-> unit,
                                out |-> <<<<side, unit \o HashSep \o blind_id,
                                            hunters.val, ducks.val>>>>]

\* the rows of the tables of a page, in the order the two nested loops visit them
RECURSIVE PageRows(_)
PageRows(tables) == IF tables = <<>> THEN <<>> ELSE tables[1] \o PageRows(Tail(tables))

\* the row loop over a sequence of rows, from a given current_unit
RECURSIVE DetailRows(_, _, _)
DetailRows(current_unit, rs, page_num) ==
  IF rs = <<>> THEN <<>>
  ELSE LET r == DetailRow(current_unit, rs[1], page_num)
       IN r.out \o DetailRows(r.unit, Tail(rs), page_num)

\* one page of parse_detail_tables: current_unit starts at None (line 68)
DetailPage(page, page_num) == DetailRows(None_, PageRows(page.tables), page_num)

\* parse_detail_tables(pdf); pdf.pages[page_num] raises IndexError on a short document
parse_detail_tables(pdf) ==
  IF Len(pdf.pages) < 3 THEN [raised |-> TRUE, rows |-> <<>>]
  ELSE [raised |-> FALSE,
        rows |-> DetailPage(pdf.pages[2], 1) \o DetailPage(pdf.pages[3], 2)]

\* ------------------------------------------------------------------------
\* parse_one_pdf
\* ------------------------------------------------------------------------
\* a variant that answers an unreadable or short document with no tuples
ParseOnePdfSwallow(pdf) ==
  IF ~pdf.readable \/ Len(pdf.pages) < 1 THEN [raised |-> FALSE, rows |-> <<>>]
  ELSE LET text == pdf.pages[1].text
           summary == parse_page1_summary(IF text = None_ THEN <<>> ELSE text)
           detail == parse_detail_tables(pdf)
       IN [raised |-> FALSE, rows |-> summary \o detail.rows]

\* parse_one_pdf(pdf_path) on the document stored at pdf_path (lines 210-216):
\* pdfplumber.open raises on an unreadable file, pdf.pages[0] on an empty one
parse_one_pdf(pdf) ==
  IF ~pdf.readable \/ Len(pdf.pages) < 1 THEN [raised |-> TRUE, rows |-> <<>>]
  ELSE LET text == pdf.pages[1].text
           summary == parse_page1_summary(IF text = None_ THEN <<>> ELSE text)
           detail == parse_detail_tables(pdf)
       IN IF detail.raised THEN [raised |-> TRUE, rows |-> <<>>]
          ELSE [raised |-> FALSE, rows |-> summary \o detail.rows]

\* ------------------------------------------------------------------------
\* main: aggregation
\* ------------------------------------------------------------------------
\* the index of key (side, name) in by_blind, 0 when it is absent
IndexOfKey(bb, side, name) ==
  IF \E i \in 1..Len(bb) : bb[i].side = side /\ bb[i].name = name
  THEN CHOOSE i \in 1..Len(bb) : bb[i].side = side /\ bb[i].name = name
  ELSE 0

\* rec["daily"].setdefault(date_label, zeros), then += on the entry (lines 242-244)
AddDaily(daily, date_label, hunters, ducks) ==
  LET old == IF date_label \in DOMAIN daily THEN daily[date_label]
             ELSE [hunters |-> 0, ducks |-> 0]
  IN [d \in DOMAIN daily \cup {date_label} |->
        IF d = date_label
        THEN [hunters |-> old.hunters + hunters, ducks |-> old.ducks + ducks]
        ELSE daily[d]]

\* a slip: the day's entry is overwritten instead of added to
AddDailyOverwrite(rec, t, date_label) ==
  [rec EXCEPT !.totals = [hunters |-> @.hunters + t[3], ducks |-> @.ducks + t[4]],
              !.daily = [d \in DOMAIN rec.daily \cup {date_label} |->
                           IF d = date_label THEN [hunters |-> t[3], ducks |-> t[4]]
                           ELSE rec.daily[d]]]

\* the body of the fold on one record (lines 240-244)
AddToRecord(rec, t, date_label) ==
  [rec EXCEPT !.totals = [hunters |-> @.hunters + t[3], ducks |-> @.ducks + t[4]],
              !.daily = AddDaily(@, date_label, t[3], t[4])]

\* a fresh AggregateRecord (line 238); daily is the empty dict
NewRecord(side, name) ==
  [side |-> side, name |-> name,
   totals |-> [hunters |-> 0, ducks |-> 0],
   daily |-> [d \in {} |-> [hunters |-> 0, ducks |-> 0]]]

\* One iteration of the inner loop of main (lines 234-244): tuple t of the document
\* dated date_label folded into by_blind, a dict in insertion order
FoldTuple(bb, t, date_label) ==
  LET i == IndexOfKey(bb, t[1], t[2])
  IN IF i = 0 THEN Append(bb, AddToRecord(NewRecord(t[1], t[2]), t, date_label))
     ELSE [bb EXCEPT ![i] = AddToRecord(@, t, date_label)]

\* the fold over a list of <<date_label, tuple>> pairs, from an empty by_blind
RECURSIVE FoldAll(_)
FoldAll(items) ==
  IF items = <<>> THEN <<>>
  ELSE FoldTuple(FoldAll(SubSeq(items, 1, Len(items) - 1)),
                 items[Len(items)][2], items[Len(items)][1])

\* ------------------------------------------------------------------------
\* main: derived records, split and ranking
\* ------------------------------------------------------------------------
Abs(x) == IF x < 0 THEN 0 - x ELSE x

\* round(num / den, 3) in thousandths, den # 0.  The quotient is rounded to the
\* nearest thousandth; an exact half arises only when den is a multiple of 16
\* (2000 * num / den odd), which the counts of the model never reach, and is
\* rounded to even here.
Round3(num, den) ==
  LET a == Abs(1000 * num)
      b == Abs(den)
      q == a \div b
      r == a % b
      m == IF 2 * r < b THEN q
           ELSE IF 2 * r > b THEN q + 1
           ELSE IF q % 2 = 0 THEN q ELSE q + 1
  IN IF (num < 0) # (den < 0) THEN 0 - m ELSE m

\* a slip: the quotient is cut off after three decimals instead of rounded
EfficiencyTruncated(ducks, hunters) ==
  IF hunters # 0 THEN (1000 * ducks) \div hunters ELSE 0

\* round((ducks / hunters) if hunters else 0.0, 3), in thousandths (lines 257, 262)
Efficiency(ducks, hunters) ==
  IF hunters # 0 THEN Round3(ducks, hunters) ELSE 0

\* sorted(S) for a set of str, ascending
RECURSIVE SortedStrs(_)
SortedStrs(S) ==
  IF S = {} THEN <<>>
  ELSE LET m == CHOOSE x \in S : \A y \in S : y = x \/ StrLess(x, y)
       IN <<m>> \o SortedStrs(S \ {m})

\* daily_list of a record (lines 258-270)
DailyList(rec) ==
  LET ds == SortedStrs(DOMAIN rec.daily)
  IN [k \in 1..Len(ds) |->
        [date |-> ds[k],
         hunters |-> rec.daily[ds[k]].hunters,
         ducks |-> rec.daily[ds[k]].ducks,
         ducksPerHunter |-> Efficiency(rec.daily[ds[k]].ducks, rec.daily[ds[k]].hunters)]]

\* the output record of an AggregateRecord (lines 255-277)
OutRecord(rec) ==
  [blind |-> rec.name,
   totalHunters |-> rec.totals.hunters,
   totalDucks |-> rec.totals.ducks,
   ducksPerHunter |-> Efficiency(rec.totals.ducks, rec.totals.hunters),
   daily |-> DailyList(rec)]

\* a slip: the side is compared with a string no tuple carries
SideRecordsAllWest(bb, east) ==
  IF east THEN <<>> ELSE [k \in 1..Len(bb) |-> OutRecord(bb[k])]

\* eastside_records / westside_records: by_blind.items() in insertion order (254-281)
SideRecords(bb, east) ==
  LET picked == SelectSeq(bb, LAMBDA rec : (rec.side = "Eastside") = east)
  IN [k \in 1..Len(picked) |-> OutRecord(picked[k])]

\* a slip: the separator is looked for with a blank behind it
IsSummarySpacedHash(record) == ~Contains(record.blind, <<" ","#"," ">>)

\* is_summary(record) (lines 284-285)
is_summary(record) == ~Contains(record.blind, HashSep)

\* a slip: the sort key leaves out the name
KeyLessNoName(a, b) == a.ducksPerHunter < b.ducksPerHunter

\* key(a) < key(b) for key = (ducksPerHunter, blind), as Python compares tuples
KeyLess(a, b) ==
  \/ a.ducksPerHunter < b.ducksPerHunter
  \/ a.ducksPerHunter = b.ducksPerHunter /\ StrLess(a.blind, b.blind)

\* r put into the sorted list s, behind every element whose key is not smaller
RECURSIVE InsertDesc(_, _)
InsertDesc(s, r) ==
  IF s = <<>> THEN <<r>>
  ELSE IF KeyLess(s[1], r) THEN <<r>> \o s
  ELSE <<s[1]>> \o InsertDesc(Tail(s), r)

\* list.sort(key=..., reverse=True): descending by key and stable (lines 291-294)
RECURSIVE SortDesc(_)
SortDesc(s) ==
  IF s = <<>> THEN <<>>
  ELSE InsertDesc(SortDesc(SubSeq(s, 1, Len(s) - 1)), s[Len(s)])

\* the four ranked lists of the report (lines 287-294)
RankedLists(bb) ==
  LET east == SideRecords(bb, TRUE)
      west == SideRecords(bb, FALSE)
  IN [eastsideSummary |-> SortDesc(SelectSeq(east, LAMBDA r : is_summary(r))),
      eastsideUnits |-> SortDesc(SelectSeq(east, LAMBDA r : ~is_summary(r))),
      westsideSummary |-> SortDesc(SelectSeq(west, LAMBDA r : is_summary(r))),
      westsideUnits |-> SortDesc(SelectSeq(west, LAMBDA r : ~is_summary(r)))]

\* ------------------------------------------------------------------------
\* Inputs of the model
\* ------------------------------------------------------------------------
\* "North Pond"
NorthPond ==
  <<"N","o","r","t","h"," ","P","o","n","d">>

\* "Mud"
Mud ==
  <<"M","u","d">>

\* the date labels of get_latest_pdf_urls: "2025-12-01" and "2025-12-02"
Date1 ==
  <<"2","0","2","5","-","1","2","-","0","1">>

Date2 ==
  <<"2","0","2","5","-","1","2","-","0","2">>

\* --- lines for parse_section: name tokens, two count fields and a tail ---
LineNames ==
  { <<>>,
    <<"N","o","r","t","h"," ","P","o","n","d">>,
    <<"E","A","S","T","S","I","D","E">>,
    <<"E","A","S","T","S","I","D","E"," ","T","O","T","A","L","S">>,
    <<"W","E","S","T","S","I","D","E">>,
    <<"W","E","S","T","S","I","D","E"," ","T","O","T","A","L","S">>,
    <<"J","o","h","n","s","o","n"," ","#","1">> }

LineField1 ==
  { <<"1","2">>, <<"-","3">>, <<"x">> }

LineField2 ==
  { <<"3","4">>, <<"2",".","8","3">> }

LineTails ==
  { <<"5"," ","6"," ","2",".","8","3">>,
    <<"5"," ","6"," ","7"," ","8">> }

\* the lines: the fields joined by single blanks, a line with other spacing, an empty line
LineInputs ==
  { Join(SelectSeq(<<n, f1, f2, t>>, LAMBDA x : x # <<>>)) :
      n \in LineNames, f1 \in LineField1, f2 \in LineField2, t \in LineTails }
  \cup { <<" "," ","N","o","r","t","h"," "," ","P","o","n","d","\t","1","_","2"," ","+","3","4"," ","5"," ","6"," ","2",".","8","3"," ">>,
         <<>> }

\* --- rows for parse_detail_tables ---
\* a column-0 text with line breaks that UNIT_COL0_MAP does not hold
SigUnknown ==
  <<"t","\n","i","\n","n","\n","U">>

\* the Johnson text as a cell with blanks around it
SigJohnsonPadded ==
  <<" ">> \o SigJohnson \o <<" ">>

Row6(c0, c1, c2, c3) == <<c0, c1, c2, c3, <<>>, <<>>>>

Row5(c0, c1, c2, c3) == <<c0, c1, c2, c3, <<>>>>

RowInputs ==
  { Row6(c0, <<"3">>, <<"4">>, <<"2">>) :
      c0 \in {<<>>, None_, SigJohnson, SigJohnsonPadded, SigOakIsland, SigUnknown,
              UnitJohnson} }
  \cup { Row6(c0, c1, <<"4">>, <<"2">>) :
      c0 \in {<<>>, SigJohnson}, c1 \in {None_, BlindHeader, <<" ","7"," ">>, <<>>} }
  \cup { Row6(<<>>, <<"3">>, c2, <<"2">>) :
      c2 \in {<<>>, None_, <<"x">>, <<"-","1">>, <<" ">>} }
  \cup { Row6(<<>>, <<"3">>, <<"4">>, c3) : c3 \in {<<>>, None_, <<"x">>} }
  \cup { Row5(SigJohnson, <<"3">>, <<"4">>, <<"2">>), <<>> }

\* --- documents for parse_one_pdf ---
\* page 1 text:
\*   EASTSIDE HUNTERS DUCKS GEESE OTHER DUCKS/HUNTER
\*   North Pond 2 3 0 0 1.5
\*   Mud 4 6 0 0 1.5
\*   EASTSIDE TOTALS 6 9 0 0 1.5
\*   WESTSIDE HUNTERS DUCKS GEESE OTHER DUCKS/HUNTER
\*   North Pond 0 0 0 0 0.0
\*   WESTSIDE TOTALS 0 0 0 0 0.0
TextA ==
  <<"E","A","S","T","S","I","D","E"," ","H","U","N","T","E","R","S"," ","D","U","C","K","S"," ","G","E","E","S","E"," ","O","T","H","E","R"," ","D","U","C","K","S","/","H","U","N","T","E","R","\n","N","o","r","t","h"," ","P","o","n","d"," ","2"," ","3"," ","0"," ","0"," ","1",".","5","\n","M","u","d"," ","4"," ","6"," ","0"," ","0"," ","1",".","5","\n","E","A","S","T","S","I","D","E"," ","T","O","T","A","L","S"," ","6"," ","9"," ","0"," ","0"," ","1",".","5","\n","W","E","S","T","S","I","D","E"," ","H","U","N","T","E","R","S"," ","D","U","C","K","S"," ","G","E","E","S","E"," ","O","T","H","E","R"," ","D","U","C","K","S","/","H","U","N","T","E","R","\n","N","o","r","t","h"," ","P","o","n","d"," ","0"," ","0"," ","0"," ","0"," ","0",".","0","\n","W","E","S","T","S","I","D","E"," ","T","O","T","A","L","S"," ","0"," ","0"," ","0"," ","0"," ","0",".","0">>

\* page 1 text:
\*   EASTSIDE HUNTERS
\*   Mud 2 3 0 0 1.5
\*   North Pond 1 3 0 0 3.0
\*   EASTSIDE TOTALS 3 6 0 0 2.0
TextB ==
  <<"E","A","S","T","S","I","D","E"," ","H","U","N","T","E","R","S","\n","M","u","d"," ","2"," ","3"," ","0"," ","0"," ","1",".","5","\n","N","o","r","t","h"," ","P","o","n","d"," ","1"," ","3"," ","0"," ","0"," ","3",".","0","\n","E","A","S","T","S","I","D","E"," ","T","O","T","A","L","S"," ","3"," ","6"," ","0"," ","0"," ","2",".","0">>

\* page 1 text, with summary lines whose names have the form of a unit blind:
\*   EASTSIDE HUNTERS
\*   Johnson #3 1 1 0 0 1.0
\*   Mud #1 2 2 0 0 1.0
\*   EASTSIDE TOTALS 3 3 0 0 1.0
TextC ==
  <<"E","A","S","T","S","I","D","E"," ","H","U","N","T","E","R","S","\n","J","o","h","n","s","o","n"," ","#","3"," ","1"," ","1"," ","0"," ","0"," ","1",".","0","\n","M","u","d"," ","#","1"," ","2"," ","2"," ","0"," ","0"," ","1",".","0","\n","E","A","S","T","S","I","D","E"," ","T","O","T","A","L","S"," ","3"," ","3"," ","0"," ","0"," ","1",".","0">>

\* a page that holds text only, and a page that holds tables only
PageText(t) == [text |-> t, tables |-> <<>>]

PageTables(ts) == [text |-> None_, tables |-> ts]

\* one table: a header row, the Johnson label with blind 3, then blind 7
TablesJohnson ==
  << << Row6(<<>>, BlindHeader, <<>>, <<>>),
        Row6(SigJohnson, <<"3">>, <<"4">>, <<"2">>),
        Row6(<<>>, <<"7">>, <<>>, <<"1">>) >> >>

\* two tables: the Oak Island label with blind 3, and blind 3 again in the next table
TablesOak ==
  << << Row6(SigOakIsland, <<"3">>, <<"3">>, <<"2">>) >>,
     << Row6(<<>>, <<"3">>, <<"3">>, <<"2">>) >> >>

\* the documents a URL may hold
DocTable ==
  << [readable |-> TRUE,
      pages |-> <<PageText(TextA), PageTables(TablesJohnson), PageTables(TablesOak)>>],
     [readable |-> TRUE,
      pages |-> <<PageText(TextB), PageTables(<<>>), PageTables(TablesJohnson)>>],
     [readable |-> TRUE,
      pages |-> <<PageText(None_), PageTables(TablesOak), PageTables(<<>>)>>],
     [readable |-> FALSE, pages |-> <<>>],
     [readable |-> TRUE, pages |-> <<PageText(TextB), PageTables(TablesJohnson)>>],
     [readable |-> TRUE, pages |-> <<>>],
     [readable |-> TRUE,
      pages |-> <<PageText(TextC), PageTables(TablesOak), PageTables(TablesJohnson)>>] >>

DocIds == 1..Len(DocTable)

\* parse_one_pdf on each document of DocTable
ParsedDocs == [d \in DocIds |-> parse_one_pdf(DocTable[d])]

\* the number of tuples that parse_page1_summary puts at the head of the list of
\* parse_one_pdf (lines 213-216)
SummaryCount(pdf) ==
  IF ~pdf.readable \/ Len(pdf.pages) < 1 THEN 0
  ELSE LET text == pdf.pages[1].text
       IN Len(parse_page1_summary(IF text = None_ THEN <<>> ELSE text))

\* --- URLs: the directory and the file name; two directories share a file name ---
UrlA == <<"2025-12", "12022025s.pdf">>

UrlB == <<"2026-01", "12022025s.pdf">>

UrlC == <<"2025-12", "12012025s.pdf">>

UrlD == <<"2025-12", "12012025s_0.pdf">>

Urls == {UrlA, UrlB, UrlC, UrlD}

\* the ISO date of the 8 digits of the file name (lines 135-138)
DateOfUrl(url) == IF url \in {UrlA, UrlB} THEN Date2 ELSE Date1

\* url.rsplit("/", 1)[-1] (line 231)
FileOfUrl(url) == url[Len(url)]

Files == {FileOfUrl(u) : u \in Urls}

\* the results of get_latest_pdf_urls(3): at most n (url, iso_date) pairs of distinct
\* URLs, newest first (lines 125-139); n is the argument of line 227
LatestN == 3

PdfInfoChoices ==
  LET seqs == UNION {[1..k -> Urls] : k \in 0..LatestN}
  IN { [i \in DOMAIN s |-> <<s[i], DateOfUrl(s[i])>>] :
         s \in { q \in seqs :
                   /\ \A i, j \in DOMAIN q : i # j => q[i] # q[j]
                   /\ \A i, j \in DOMAIN q :
                        i < j => ~StrLess(DateOfUrl(q[i]), DateOfUrl(q[j])) } }

\* --- batches for the aggregation on its own ---
BatchItems ==
  { <<d, <<side, name, c[1], c[2]>>>> :
      d \in {Date1, Date2}, side \in {"Eastside"}, name \in {NorthPond, Mud},
      c \in {<<1, 2>>, <<2, 1>>} }

Batches == UNION {[1..k -> BatchItems] : k \in 0..MaxBatch}

\* --- what the request of fetch_weather_for_dates can meet ---
DateOther ==
  <<"2","0","2","5","-","1","1","-","3","0">>

\* no request was made
NoReply == [kind |-> "none", times |-> {}]

\* urlopen raises (no route, time-out, HTTP error); the body is no JSON; the decoded
\* body is a mapping whose "daily" lists these days; the decoded body has another
\* shape (a list, a "daily" that is no mapping, a temperature that is no number)
WeatherReplies ==
  {[kind |-> k, times |-> {}] : k \in {"unreachable", "not_json", "other_shape"}}
    \cup {[kind |-> "daily", times |-> g] : g \in SUBSET {Date1, Date2, DateOther}}

\* ------------------------------------------------------------------------
\* fetch_weather_for_dates (lines 156-199): the days of the result, or an exception
\* ------------------------------------------------------------------------
\* a slip: the failure of the request is not handled
FetchWeatherNoHandler(dates, reply) ==
  IF dates = {} THEN [raised |-> FALSE, result |-> {}]
  ELSE IF reply.kind = "daily" THEN [raised |-> FALSE, result |-> reply.times \cap dates]
  ELSE [raised |-> TRUE, result |-> {}]

fetch_weather_for_dates(dates, reply) ==
  IF dates = {} THEN [raised |-> FALSE, result |-> {}]
  ELSE IF reply.kind \in {"unreachable", "not_json"}
       THEN [raised |-> FALSE, result |-> {}]
  ELSE IF reply.kind = "other_shape" THEN [raised |-> TRUE, result |-> {}]
  ELSE [raised |-> FALSE, result |-> reply.times \cap dates]

\* ------------------------------------------------------------------------
\* State
\* ------------------------------------------------------------------------
VARIABLES
  pc,               \* the position of the running function
  pdf_infos,        \* main: the list of (url, date_label) of line 227
  doc_i,            \* main: the index in pdf_infos of the loop of line 229
  tuples,           \* main: the tuples of parse_one_pdf that line 234 has yet to visit
  by_blind,         \* main: the dict of line 223, in insertion order
  used_dates,       \* main: the set of line 224
  disk,             \* the files beside the script: file name -> document, 0 if absent
  weather_by_date,  \* main: the dates fetch_weather_for_dates has answered
  weather_reply,    \* history: what the request of line 179 met
  report,           \* the data written to blinds_data.json, None_ before
  folded,           \* history: the <<doc index, date_label, tuple, extractor>> folded
  line,             \* parse_section: the line of the current iteration
  out,              \* parse_section: the list out
  side_arg,         \* parse_section: the argument side
  page_num,         \* parse_detail_tables: the page index of line 65
  table_i,          \* parse_detail_tables: the number of the table on the page
  current_unit,     \* parse_detail_tables: current_unit
  rows,             \* parse_detail_tables: the list rows
  row,              \* parse_detail_tables: the row of the current iteration
  emitted,          \* history: the tuples the current iteration has appended
  steps,            \* history: the number of iterations so far
  resolved,         \* history: a label cell of the current page has been resolved
  last_label,       \* history: the lookup of the last label cell seen on the page
  batch             \* the aggregation on its own: the <<date_label, tuple>> still to fold

mainVars == <<pdf_infos, doc_i, tuples, by_blind, used_dates, disk, weather_by_date,
              weather_reply, report, folded>>

sectionVars == <<line, out, side_arg>>

detailVars == <<page_num, table_i, current_unit, rows, row>>

vars == <<pc, mainVars, sectionVars, detailVars, emitted, steps, resolved, last_label,
          batch>>

\* the variables of main before its first statement
MainIdle ==
  /\ pdf_infos = <<>>
  /\ doc_i = 1
  /\ tuples = <<>>
  /\ by_blind = <<>>
  /\ used_dates = {}
  /\ disk = [f \in Files |-> 0]
  /\ weather_by_date = {}
  /\ weather_reply = NoReply
  /\ report = None_
  /\ folded = <<>>

SectionIdle == line = <<>> /\ out = <<>> /\ side_arg = "Eastside"

DetailIdle ==
  /\ page_num = 1
  /\ table_i = 0
  /\ current_unit = None_
  /\ rows = <<>>
  /\ row = <<>>

HistoryIdle == emitted = <<>> /\ steps = 0 /\ resolved = FALSE /\ last_label = None_

\* ------------------------------------------------------------------------
\* main (lines 219-345)
\* ------------------------------------------------------------------------
Init ==
  /\ pc = "start"
  /\ MainIdle /\ SectionIdle /\ DetailIdle /\ HistoryIdle
  /\ batch = <<>>

\* line 227: get_latest_pdf_urls(3) answers, or urlopen raises
Discover ==
  /\ pc = "start"
  /\ \/ \E infos \in PdfInfoChoices : pdf_infos' = infos /\ pc' = "loop"
     \/ pdf_infos' = pdf_infos /\ pc' = "raised"
  /\ UNCHANGED <<doc_i, tuples, by_blind, used_dates, disk, weather_by_date,
                 weather_reply, report, folded, sectionVars, detailVars, emitted, steps,
                 resolved, last_label, batch>>

\* lines 229-233: the next document; download_pdf keeps an existing file, else it
\* fetches the URL, which raises or stores the document the URL holds
Download ==
  /\ pc = "loop"
  /\ doc_i <= Len(pdf_infos)
  /\ LET url == pdf_infos[doc_i][1]
         date_label == pdf_infos[doc_i][2]
         file == FileOfUrl(url)
     IN /\ used_dates' = used_dates \cup {date_label}
        /\ \/ disk[file] # 0 /\ disk' = disk /\ pc' = "parse"
           \/ disk[file] = 0 /\ \E d \in DocIds :
                disk' = [disk EXCEPT ![file] = d] /\ pc' = "parse"
           \/ disk[file] = 0 /\ disk' = disk /\ pc' = "raised"
  /\ UNCHANGED <<pdf_infos, doc_i, tuples, by_blind, weather_by_date, weather_reply,
                 report, folded, sectionVars, detailVars, emitted, steps, resolved,
                 last_label, batch>>

\* line 234: parse_one_pdf(pdf_path) returns its tuples, or raises
Parse ==
  /\ pc = "parse"
  /\ LET res == ParsedDocs[disk[FileOfUrl(pdf_infos[doc_i][1])]]
     IN \/ res.raised /\ tuples' = tuples /\ pc' = "raised"
        \/ ~res.raised /\ tuples' = res.rows /\ pc' = "fold"
  /\ UNCHANGED <<pdf_infos, doc_i, by_blind, used_dates, disk, weather_by_date,
                 weather_reply, report, folded, sectionVars, detailVars, emitted, steps,
                 resolved, last_label, batch>>

\* lines 234-244: one tuple folded into by_blind
Fold ==
  /\ pc = "fold"
  /\ tuples # <<>>
  /\ by_blind' = FoldTuple(by_blind, Head(tuples), pdf_infos[doc_i][2])
  /\ LET d == disk[FileOfUrl(pdf_infos[doc_i][1])]
         visited == Len(ParsedDocs[d].rows) - Len(tuples)
         extractor == IF visited < SummaryCount(DocTable[d]) THEN "summary" ELSE "detail"
     IN folded' = Append(folded, <<doc_i, pdf_infos[doc_i][2], Head(tuples), extractor>>)
  /\ tuples' = Tail(tuples)
  /\ UNCHANGED <<pc, pdf_infos, doc_i, used_dates, disk, weather_by_date, weather_reply,
                 report, sectionVars, detailVars, emitted, steps, resolved, last_label,
                 batch>>

\* the inner loop is exhausted: back to line 229
NextDoc ==
  /\ pc = "fold"
  /\ tuples = <<>>
  /\ doc_i' = doc_i + 1
  /\ pc' = "loop"
  /\ UNCHANGED <<pdf_infos, tuples, by_blind, used_dates, disk, weather_by_date,
                 weather_reply, report, folded, sectionVars, detailVars, emitted, steps,
                 resolved, last_label, batch>>

\* lines 246-249: fetch_weather_for_dates(dates).  No dates: {} without a request.
\* Else the request meets one of WeatherReplies; main has no handler around the call.
FetchWeather ==
  /\ pc = "loop"
  /\ doc_i > Len(pdf_infos)
  /\ \E reply \in WeatherReplies :
       LET res == fetch_weather_for_dates(used_dates, reply)
       IN /\ weather_reply' = (IF used_dates = {} THEN NoReply ELSE reply)
          /\ \/ ~res.raised /\ weather_by_date' = res.result /\ pc' = "rank"
             \/ res.raised /\ weather_by_date' = weather_by_date /\ pc' = "raised"
  /\ UNCHANGED <<pdf_infos, doc_i, tuples, by_blind, used_dates, disk, report, folded,
                 sectionVars, detailVars, emitted, steps, resolved, last_label, batch>>

\* pdf_by_date of line 228: a later pair of the same date replaces an earlier one
PdfByDate(infos) ==
  [d \in {infos[i][2] : i \in DOMAIN infos} |->
     infos[CHOOSE i \in DOMAIN infos :
             infos[i][2] = d /\ \A j \in DOMAIN infos : infos[j][2] = d => j <= i][1]]

\* lines 251-340: the records, the split, the sort and the data of blinds_data.json
BuildReport ==
  /\ pc = "rank"
  /\ LET lists == RankedLists(by_blind)
     IN report' = [dates |-> SortedStrs(used_dates),
                   weatherByDate |-> weather_by_date,
                   pdfByDate |-> PdfByDate(pdf_infos),
                   eastsideSummary |-> lists.eastsideSummary,
                   eastsideUnits |-> lists.eastsideUnits,
                   westsideSummary |-> lists.westsideSummary,
                   westsideUnits |-> lists.westsideUnits]
  /\ pc' = "done"
  /\ UNCHANGED <<pdf_infos, doc_i, tuples, by_blind, used_dates, disk, weather_by_date,
                 weather_reply, folded, sectionVars, detailVars, emitted, steps, resolved,
                 last_label, batch>>

Next == Discover \/ Download \/ Parse \/ Fold \/ NextDoc \/ FetchWeather \/ BuildReport

Spec == Init /\ [][Next]_vars

\* ------------------------------------------------------------------------
\* parse_section on its own (lines 18-33)
\* ------------------------------------------------------------------------
SectionInit ==
  /\ pc = "section"
  /\ MainIdle /\ DetailIdle /\ HistoryIdle
  /\ line = <<>>
  /\ out = <<>>
  /\ side_arg \in {"Eastside", "Westside"}
  /\ batch = <<>>

\* lines 20-32: one line of the block
SectionStep ==
  /\ pc = "section"
  /\ steps < MaxBlockLines
  /\ \E l \in LineInputs :
       /\ line' = l
       /\ emitted' = SectionLine(l, side_arg)
       /\ out' = out \o SectionLine(l, side_arg)
  /\ steps' = steps + 1
  /\ UNCHANGED <<pc, side_arg, resolved, last_label, mainVars, detailVars, batch>>

\* line 33: return out
SectionReturn ==
  /\ pc = "section"
  /\ pc' = "returned"
  /\ UNCHANGED <<line, out, side_arg, emitted, steps, resolved, last_label, mainVars,
                 detailVars, batch>>

SectionNext == SectionStep \/ SectionReturn

SpecSection == SectionInit /\ [][SectionNext]_vars

\* ------------------------------------------------------------------------
\* parse_detail_tables on its own (lines 58-95)
\* ------------------------------------------------------------------------
DetailInit ==
  /\ pc = "page"
  /\ MainIdle /\ SectionIdle /\ DetailIdle /\ HistoryIdle
  /\ batch = <<>>

\* lines 66-68: pdf.pages[page_num] and its tables, or IndexError
DetailOpenPage ==
  /\ pc = "page"
  /\ \/ current_unit' = None_ /\ table_i' = 0 /\ pc' = "tables"
     \/ UNCHANGED <<current_unit, table_i>> /\ pc' = "raised"
  /\ emitted' = <<>>
  /\ resolved' = FALSE
  /\ last_label' = None_
  /\ UNCHANGED <<page_num, rows, row, steps, mainVars, sectionVars, batch>>

\* line 69: the next table of the page
DetailNextTable ==
  /\ pc \in {"tables", "row"}
  /\ table_i < MaxTables
  /\ table_i' = table_i + 1
  /\ pc' = "tables"
  /\ emitted' = <<>>
  /\ UNCHANGED <<page_num, current_unit, rows, row, steps, resolved, last_label, mainVars,
                 sectionVars, batch>>

\* the row reaches line 79 and its first cell is a label that UNIT_COL0_MAP holds
ResolvesLabel(r) ==
  /\ Len(r) >= 6
  /\ r[2] # None_
  /\ r[2] # BlindHeader
  /\ IsLabelCell(r[1])
  /\ UNIT_COL0_MAP_get(Strip(r[1])) # None_

\* the lookup of the last non-blank first cell with a line break among the rows of
\* the page, whatever the rest of its row holds (the test and the lookup of line 79)
LabelSeen(prev, r) ==
  IF Len(r) >= 1 /\ IsLabelCell(r[1]) THEN UNIT_COL0_MAP_get(Strip(r[1])) ELSE prev

\* lines 70-93: the next row of the table; pc = "row" behind the iteration
DetailStep ==
  /\ pc \in {"tables", "row"}
  /\ table_i >= 1
  /\ steps < MaxRows
  /\ \E r \in RowInputs :
       LET res == DetailRow(current_unit, r, page_num)
       IN /\ row' = r
          /\ current_unit' = res.unit
          /\ rows' = rows \o res.out
          /\ emitted' = res.out
          /\ resolved' = (resolved \/ ResolvesLabel(r))
          /\ last_label' = LabelSeen(last_label, r)
  /\ steps' = steps + 1
  /\ pc' = "row"
  /\ UNCHANGED <<page_num, table_i, mainVars, sectionVars, batch>>

\* the tables of the page are exhausted: the next page, or line 95
DetailEndPage ==
  /\ pc \in {"tables", "row"}
  /\ \/ page_num = 1 /\ page_num' = 2 /\ pc' = "page"
     \/ page_num = 2 /\ page_num' = page_num /\ pc' = "returned"
  /\ emitted' = <<>>
  /\ UNCHANGED <<table_i, current_unit, rows, row, steps, resolved, last_label, mainVars,
                 sectionVars, batch>>

DetailNext == DetailOpenPage \/ DetailNextTable \/ DetailStep \/ DetailEndPage

SpecDetail == DetailInit /\ [][DetailNext]_vars

\* ------------------------------------------------------------------------
\* The aggregation of main on its own: the fold of lines 234-244 over one batch
\* ------------------------------------------------------------------------
AggInit ==
  /\ pc = "fold"
  /\ MainIdle /\ SectionIdle /\ DetailIdle /\ HistoryIdle
  /\ batch \in Batches

AggFold ==
  /\ pc = "fold"
  /\ batch # <<>>
  /\ by_blind' = FoldTuple(by_blind, Head(batch)[2], Head(batch)[1])
  /\ folded' = Append(folded, <<1, Head(batch)[1], Head(batch)[2], "summary">>)
  /\ batch' = Tail(batch)
  /\ UNCHANGED <<pc, pdf_infos, doc_i, tuples, used_dates, disk, weather_by_date,
                 weather_reply, report, sectionVars, detailVars, emitted, steps, resolved,
                 last_label>>

AggDone ==
  /\ pc = "fold"
  /\ batch = <<>>
  /\ pc' = "done"
  /\ UNCHANGED <<mainVars, sectionVars, detailVars, emitted, steps, resolved, last_label,
                 batch>>

AggNext == AggFold \/ AggDone

SpecAgg == AggInit /\ [][AggNext]_vars

\* ------------------------------------------------------------------------
\* Properties
\* ------------------------------------------------------------------------
Range(s) == {s[i] : i \in DOMAIN s}

RECURSIVE SumOver(_, _)
SumOver(S, f) ==
  IF S = {} THEN 0
  ELSE LET x == CHOOSE y \in S : TRUE IN f[x] + SumOver(S \ {x}, f)

\* the sum of one count over the daily buckets of a record
SumDaily(rec, hunters) ==
  SumOver(DOMAIN rec.daily,
          [d \in DOMAIN rec.daily |->
             IF hunters THEN rec.daily[d].hunters ELSE rec.daily[d].ducks])

\* C1: after every tuple folded by main, every record of by_blind has
\* totals.hunters equal to the sum of the hunters of its daily buckets, and
\* totals.ducks equal to the sum of their ducks.
C1_TotalsAreDailySums ==
  \A i \in DOMAIN by_blind :
    /\ by_blind[i].totals.hunters = SumDaily(by_blind[i], TRUE)
    /\ by_blind[i].totals.ducks = SumDaily(by_blind[i], FALSE)

\* a record fed by three tuples or more, over two dates, one date fed twice
C1_Witness ==
  /\ pc = "fold"
  /\ \E i \in DOMAIN by_blind :
       /\ Cardinality(DOMAIN by_blind[i].daily) = 2
       /\ Cardinality({k \in DOMAIN folded :
                         /\ folded[k][3][1] = by_blind[i].side
                         /\ folded[k][3][2] = by_blind[i].name}) >= 3

\* by_blind as a mapping: the set of its records (one per key)
AsMap(bb) == Range(bb)

KeysOf(M) == {<<r.side, r.name>> : r \in M}

\* map union-with-sum of two daily mappings
MergeDaily(d1, d2) ==
  [d \in DOMAIN d1 \cup DOMAIN d2 |->
     [hunters |-> (IF d \in DOMAIN d1 THEN d1[d].hunters ELSE 0)
                  + (IF d \in DOMAIN d2 THEN d2[d].hunters ELSE 0),
      ducks |-> (IF d \in DOMAIN d1 THEN d1[d].ducks ELSE 0)
                + (IF d \in DOMAIN d2 THEN d2[d].ducks ELSE 0)]]

\* map union-with-sum of two aggregations
MergeMaps(M1, M2) ==
  { LET a == {r \in M1 : <<r.side, r.name>> = k}
        b == {r \in M2 : <<r.side, r.name>> = k}
        ra == IF a = {} THEN NewRecord(k[1], k[2]) ELSE CHOOSE r \in a : TRUE
        rb == IF b = {} THEN NewRecord(k[1], k[2]) ELSE CHOOSE r \in b : TRUE
    IN [side |-> k[1], name |-> k[2],
        totals |-> [hunters |-> ra.totals.hunters + rb.totals.hunters,
                    ducks |-> ra.totals.ducks + rb.totals.ducks],
        daily |-> MergeDaily(ra.daily, rb.daily)]
    : k \in KeysOf(M1) \cup KeysOf(M2) }

\* the rearrangements of a sequence
Permutations_(s) ==
  { [i \in DOMAIN s |-> s[p[i]]] :
      p \in {q \in [DOMAIN s -> DOMAIN s] : \A i, j \in DOMAIN s : i # j => q[i] # q[j]} }

\* the <<date_label, tuple>> pairs folded so far
FoldedItems == [k \in DOMAIN folded |-> <<folded[k][2], folded[k][3]>>]

\* C2: folding the same pairs in any order, or in up to three sub-lists that are
\* aggregated separately and merged by map union-with-sum, gives the mapping
\* from (side, name) to totals and daily buckets that the one batch gives.
C2_OrderAndBatchIndependent ==
  \A p \in Permutations_(FoldedItems) :
    \A k1 \in 0..Len(p) : \A k2 \in k1..Len(p) :
      AsMap(by_blind) =
        MergeMaps(MergeMaps(AsMap(FoldAll(SubSeq(p, 1, k1))),
                            AsMap(FoldAll(SubSeq(p, k1 + 1, k2)))),
                  AsMap(FoldAll(SubSeq(p, k2 + 1, Len(p)))))

\* a batch of three pairs: one key on one date twice with different counts, and more
C2_Witness ==
  /\ pc = "done"
  /\ Len(folded) >= 3
  /\ \E i, j \in DOMAIN folded :
       /\ i # j
       /\ folded[i][2] = folded[j][2]
       /\ folded[i][3][1] = folded[j][3][1]
       /\ folded[i][3][2] = folded[j][3][2]
       /\ folded[i][3][3] # folded[j][3][3]
  /\ Len(by_blind) >= 2

\* the four lists of the report
ReportLists ==
  <<report.eastsideSummary, report.eastsideUnits,
    report.westsideSummary, report.westsideUnits>>

\* the two lists of a side
ListsOfSide(side) ==
  IF side = "Eastside" THEN <<report.eastsideSummary, report.eastsideUnits>>
  ELSE <<report.westsideSummary, report.westsideUnits>>

FoldedOfKey(side, name) ==
  {k \in DOMAIN folded : folded[k][3][1] = side /\ folded[k][3][2] = name}

SumFolded(ks, pos) == SumOver(ks, [k \in ks |-> folded[k][3][pos]])

\* C3: in the report, every (side, name) of a folded tuple has exactly one record,
\* in one of the two lists of its side; its totals are the sums over all tuples of
\* the key, its daily entries are exactly the dates of those tuples; and the four
\* lists hold no other record.
C3_EveryKeyOnceWithItsSums ==
  pc = "done" =>
    /\ \A f \in Range(folded) :
         LET side == f[3][1]
             name == f[3][2]
             ks == FoldedOfKey(side, name)
             both == ListsOfSide(side)[1] \o ListsOfSide(side)[2]
             at == {i \in DOMAIN both : both[i].blind = name}
         IN /\ Cardinality(at) = 1
            /\ \A i \in at :
                 /\ both[i].totalHunters = SumFolded(ks, 3)
                 /\ both[i].totalDucks = SumFolded(ks, 4)
                 /\ {both[i].daily[n].date : n \in DOMAIN both[i].daily}
                      = {folded[k][2] : k \in ks}
                 /\ Len(both[i].daily) = Cardinality({folded[k][2] : k \in ks})
                 /\ \A n \in DOMAIN both[i].daily :
                      LET kd == {k \in ks : folded[k][2] = both[i].daily[n].date}
                      IN /\ both[i].daily[n].hunters = SumFolded(kd, 3)
                         /\ both[i].daily[n].ducks = SumFolded(kd, 4)
    /\ Len(ReportLists[1]) + Len(ReportLists[2]) + Len(ReportLists[3])
         + Len(ReportLists[4])
       = Cardinality({<<f[3][1], f[3][2]>> : f \in Range(folded)})

\* a report over two dates with a key of both sides by one name, and a key that
\* occurs on one of the dates only
C3_Witness ==
  /\ pc = "done"
  /\ Len(report.dates) = 2
  /\ \E f, g \in Range(folded) : f[3][1] # g[3][1] /\ f[3][2] = g[3][2]
  /\ \E f \in Range(folded) :
       Cardinality({folded[k][2] : k \in FoldedOfKey(f[3][1], f[3][2])}) = 1

\* C4 as the specification states it: each list descends by ducksPerHunter, and
\* records of equal ducksPerHunter ascend by blind name.
C4_TiesAscendByName ==
  pc = "done" =>
    \A n \in 1..4 :
      LET l == ReportLists[n]
      IN \A i \in 1..(Len(l) - 1) :
           \/ l[i].ducksPerHunter > l[i + 1].ducksPerHunter
           \/ /\ l[i].ducksPerHunter = l[i + 1].ducksPerHunter
              /\ StrLess(l[i].blind, l[i + 1].blind)

\* e thousandths is the efficiency of ducks over hunters: 0 without hunters, else
\* a thousandth nearest to the quotient
IsEfficiency(e, ducks, hunters) ==
  /\ hunters = 0 => e = 0
  /\ hunters > 0 => 2 * Abs(1000 * ducks - e * hunters) <= hunters

RecordsOfReport == UNION {Range(ReportLists[n]) : n \in 1..4}

\* C5: ducksPerHunter of every record and of every daily entry is the quotient
\* rounded to 3 decimals when there are hunters and 0 when there are none; a
\* record of a single date has the ducksPerHunter of that date.
C5_EfficiencyAtBothLevels ==
  pc = "done" =>
    \A r \in RecordsOfReport :
      /\ IsEfficiency(r.ducksPerHunter, r.totalDucks, r.totalHunters)
      /\ \A n \in DOMAIN r.daily :
           IsEfficiency(r.daily[n].ducksPerHunter, r.daily[n].ducks, r.daily[n].hunters)
      /\ Len(r.daily) = 1 => r.ducksPerHunter = r.daily[1].ducksPerHunter

\* a report with a record without hunters but with ducks, a record whose quotient
\* has no exact 3 decimals, and a record of a single date
C5_Witness ==
  /\ pc = "done"
  /\ \E r \in RecordsOfReport : r.totalHunters = 0 /\ r.totalDucks > 0
  /\ \E r \in RecordsOfReport :
       r.totalHunters > 0 /\ (1000 * r.totalDucks) % r.totalHunters # 0
  /\ \E r \in RecordsOfReport : Len(r.daily) = 1
  /\ \E r \in RecordsOfReport : Len(r.daily) = 2

\* the records of a set in an order that the set alone decides
RECURSIVE CanonicalOrder(_)
CanonicalOrder(S) ==
  IF S = {} THEN <<>>
  ELSE LET m == CHOOSE x \in S :
                  \A y \in S :
                    \/ y = x
                    \/ StrLess(x.name, y.name)
                    \/ x.name = y.name /\ x.side = "Eastside"
       IN <<m>> \o CanonicalOrder(S \ {m})

\* C6: the four ranked lists are those of the same records inserted into by_blind
\* in the canonical order: they depend on the set of records only, not on the
\* order of documents and tuples.
C6_RankingIgnoresInsertionOrder ==
  pc = "done" =>
    LET lists == RankedLists(CanonicalOrder(Range(by_blind)))
    IN ReportLists = <<lists.eastsideSummary, lists.eastsideUnits,
                       lists.westsideSummary, lists.westsideUnits>>

\* a report with two records of equal ducksPerHunter in one list, from a by_blind
\* that is not in canonical order
C6_Witness ==
  /\ pc = "done"
  /\ by_blind # CanonicalOrder(Range(by_blind))
  /\ \E n \in 1..4 : \E i \in 1..(Len(ReportLists[n]) - 1) :
       ReportLists[n][i].ducksPerHunter = ReportLists[n][i + 1].ducksPerHunter

\* C7: a row walked while current_unit is None appends no tuple, and no row of a
\* page appends a tuple before a label cell of that page has been resolved.
C7_NoTupleWithoutUnit ==
  (pc = "row" /\ (current_unit = None_ \/ ~resolved)) => emitted = <<>>

\* a well-formed row (blind id and two counts) walked while current_unit is None
C7_Witness ==
  /\ pc = "row"
  /\ current_unit = None_
  /\ row = Row6(<<>>, <<"3">>, <<"4">>, <<"2">>)
  /\ page_num = 2

\* the line of the specification's example
ExampleLine ==
  <<"N","o","r","t","h"," ","P","o","n","d"," ","1","2"," ","3","4"," ","5"," ","6"," ","2",".","8","3">>

\* C8: the line of an iteration of parse_section appends one tuple if and only if
\* it has 6 tokens or more, its 5th- and 4th-from-last tokens are integers and the
\* join of the tokens before the last 5 is not empty and is no header or totals
\* name; the tuple is (side, that join, the two integers); any other line appends
\* nothing.
C8_SectionLineRule ==
  (pc = "section" /\ steps > 0) =>
    LET parts == Split(line)
        n == Len(parts)
        name == Join(SubSeq(parts, 1, n - 5))
        accepted == /\ n >= 6
                    /\ IntOfStr(parts[n - 4]).ok
                    /\ IntOfStr(parts[n - 3]).ok
                    /\ name # <<>>
                    /\ name \notin {EASTSIDE, EASTSIDE_TOTALS, WESTSIDE, WESTSIDE_TOTALS}
    IN /\ accepted => emitted = <<<<side_arg, name, IntOfStr(parts[n - 4]).val,
                                    IntOfStr(parts[n - 3]).val>>>>
       /\ ~accepted => emitted = <<>>
       /\ line = ExampleLine => emitted = <<<<side_arg, NorthPond, 12, 34>>>>

C8_Witness ==
  /\ pc = "section"
  /\ line = ExampleLine
  /\ emitted # <<>>
  /\ Len(out) = 2

\* the row of the current iteration reaches the counts with a unit set
RowReachesCounts ==
  /\ pc = "row"
  /\ Len(row) >= 6
  /\ row[2] # None_
  /\ row[2] # BlindHeader
  /\ current_unit # None_

\* C9 as the specification states it: with a unit set, an empty or missing (None)
\* 3rd or 4th cell counts as 0 and the row appends a tuple; a cell that is no
\* number makes the row append nothing.
C9_EmptyOrMissingIsZero ==
  RowReachesCounts =>
    LET count(c) == IF c = None_ \/ c = <<>> THEN [ok |-> TRUE, val |-> 0] ELSE IntOfStr(c)
        h == count(row[3])
        d == count(row[4])
    IN IF h.ok /\ d.ok
       THEN /\ Len(emitted) = 1
            /\ emitted[1][3] = h.val
            /\ emitted[1][4] = d.val
       ELSE emitted = <<>>

\* C9, amended: with a unit set, an empty ("") 3rd or 4th cell counts as 0 and the
\* row appends a tuple; a cell that is None or that is no number makes the row
\* append nothing.
C9_EmptyIsZeroNoneSkips ==
  RowReachesCounts =>
    LET count(c) == IF c = None_ THEN [ok |-> FALSE, val |-> 0]
                    ELSE IF c = <<>> THEN [ok |-> TRUE, val |-> 0]
                    ELSE IntOfStr(c)
        h == count(row[3])
        d == count(row[4])
    IN IF h.ok /\ d.ok
       THEN /\ Len(emitted) = 1
            /\ emitted[1][3] = h.val
            /\ emitted[1][4] = d.val
       ELSE emitted = <<>>

\* a row with an empty 3rd cell has appended a tuple of 0 hunters
C9_Witness ==
  /\ RowReachesCounts
  /\ row[3] = <<>>
  /\ Len(emitted) = 1
  /\ emitted[1][3] = 0
  /\ emitted[1][4] = 2

\* the document is one parse_one_pdf can open and walk: readable, with 3 pages
DocParseable(d) == DocTable[d].readable /\ Len(DocTable[d].pages) >= 3

\* the document on disk for entry k of pdf_infos, 0 when there is none
DocOfInfo(k) == disk[FileOfUrl(pdf_infos[k][1])]

\* C10: a document that cannot be opened or parsed stops main: none of its tuples
\* is folded, the loop does not go on behind it, and no report is written.
C10_UnparseableDocumentStopsMain ==
  /\ \A f \in Range(folded) : DocParseable(DocOfInfo(f[1]))
  /\ \A k \in DOMAIN pdf_infos :
       (DocOfInfo(k) # 0 /\ ~DocParseable(DocOfInfo(k))) =>
         /\ report = None_
         /\ doc_i <= k
         /\ pc \in {"parse", "raised"}

\* main stopped at its second document, which is on disk and lacks the detail
\* pages, after the tuples of the first were folded
C10_Witness ==
  /\ pc = "raised"
  /\ doc_i = 2
  /\ Len(pdf_infos) >= 2
  /\ DocOfInfo(2) # 0
  /\ DocTable[DocOfInfo(2)].readable
  /\ Len(DocTable[DocOfInfo(2)].pages) = 2
  /\ folded # <<>>
  /\ report = None_

\* the request of fetch_weather_for_dates failed, or its body could not be decoded
WeatherLookupFailed == weather_reply.kind \in {"unreachable", "not_json"}

\* the four ranked lists that the folded tuples alone determine
ListsOfFolded == RankedLists(FoldAll(FoldedItems))

\* C11: when the weather request fails or its body cannot be decoded,
\* fetch_weather_for_dates returns the empty mapping and main goes on: it does not
\* stop, and the report it writes holds no weather entry and the four ranked lists
\* that the folded tuples determine, whatever the weather.
C11_WeatherFailureKeepsRanking ==
  WeatherLookupFailed =>
    /\ pc \in {"rank", "done"}
    /\ weather_by_date = {}
    /\ pc = "done" =>
         /\ report.weatherByDate = {}
         /\ report.dates = SortedStrs(used_dates)
         /\ report.eastsideSummary = ListsOfFolded.eastsideSummary
         /\ report.eastsideUnits = ListsOfFolded.eastsideUnits
         /\ report.westsideSummary = ListsOfFolded.westsideSummary
         /\ report.westsideUnits = ListsOfFolded.westsideUnits

\* a report of two dates with records on both sides, written after the request failed
C11_Witness ==
  /\ pc = "done"
  /\ weather_reply.kind = "unreachable"
  /\ Cardinality(used_dates) = 2
  /\ report.weatherByDate = {}
  /\ report.eastsideSummary # <<>>
  /\ report.westsideUnits # <<>>

\* main stopped inside download_pdf: the file of the current entry is not on disk
DownloadRaised ==
  /\ pc = "raised"
  /\ doc_i <= Len(pdf_infos)
  /\ DocOfInfo(doc_i) = 0

\* C12 as the specification states it: a download that raises for one of the
\* discovered URLs does not stop main, which goes on with the other documents.
C12_DownloadFailureDoesNotAbort ==
  ~DownloadRaised

\* C13 as the specification states it: a tuple appended by a row of
\* parse_detail_tables is named after the lookup of the last label cell (a first
\* cell that is not blank and holds a line break) seen at or before that row on the
\* same page, in whatever row it stood; when that lookup failed, or the page has
\* shown no label cell yet, the row appends nothing.
C13_GroupIsLastLabelOfPage ==
  (pc = "row" /\ emitted # <<>>) =>
    /\ last_label # None_
    /\ emitted[1][2] = last_label \o HashSep \o Strip(row[2])

\* the nine unit names of UNIT_COL0_MAP
CanonicalUnits ==
  {UnitJohnson, UnitRacetrack, UnitHunt, UnitMudhen, UnitOakIsland, UnitMudLake,
   UnitSeal, UnitSteelman, UnitHolmanPoint}

\* C14 as the specification states it: a tuple appended by a row of
\* parse_detail_tables is named "<G> #<id>" with G one of the nine unit names and
\* id the trimmed 2nd cell, which is not empty, and its side is Eastside on page
\* index 1 and Westside on page index 2; a row whose 2nd cell is None, empty,
\* blank or the header "Blind" appends nothing.
C14_NameIsUnitHashId ==
  pc = "row" =>
    /\ emitted # <<>> =>
         /\ \E G \in CanonicalUnits : emitted[1][2] = G \o HashSep \o Strip(row[2])
         /\ Strip(row[2]) # <<>>
         /\ emitted[1][1] = (IF page_num = 1 THEN "Eastside" ELSE "Westside")
    /\ (Len(row) >= 2 /\ (row[2] = None_ \/ Strip(row[2]) = <<>> \/ row[2] = BlindHeader))
         => emitted = <<>>

\* C15 as the specification states it: every tuple that parse_section or
\* parse_detail_tables has appended has hunters >= 0 and ducks >= 0.
C15_CountsNonNegative ==
  \A t \in Range(out) \cup Range(rows) : t[3] >= 0 /\ t[4] >= 0

\* the extractors that contributed a tuple to the key (side, name)
ExtractorsOfKey(side, name) == {folded[k][4] : k \in FoldedOfKey(side, name)}

\* the key (side, name) has a record in the summary list / the units list of its side
InSummaryList(side, name) ==
  \E i \in DOMAIN ListsOfSide(side)[1] : ListsOfSide(side)[1][i].blind = name

InUnitsList(side, name) ==
  \E i \in DOMAIN ListsOfSide(side)[2] : ListsOfSide(side)[2][i].blind = name

====
